---- MODULE Spec2Model ----
(***************************************************************************)
(* A model of tools/gn/unique_vector.h: the UniqueVector<T> ordered set    *)
(* with its UniquifyRef index entries, and the SourceDir value type that   *)
(* follows it in the same file.                                            *)
(*                                                                         *)
(* A UniqueVector is a std::vector<T> (vector_) and a                      *)
(* std::unordered_set<UniquifyRef<T>> (set_).  A committed UniquifyRef is  *)
(* (vect_, index_, hash_val_): a pointer to a std::vector<T> object, an    *)
(* index into it and the cached hash of the element.  Two UniqueVector     *)
(* objects, "a" and "b", exist so that copies and moves of a whole         *)
(* collection can be modelled.                                             *)
(***************************************************************************)
EXTENDS Integers, Sequences, FiniteSets, TLC

VARIABLES
    vector_,    \* [Objs -> Seq(Values)]   UniqueVector::vector_
    set_,       \* [Objs -> SUBSET Ref]    UniqueVector::set_
    cap,        \* [Objs -> Nat]           vector_.capacity()
    last,       \* the last call made: operation, object, argument, result
    offered,    \* [Objs -> Seq(Values)]   values offered since construction or clear
    firstAt,    \* [Objs -> [Values -> Nat]] size() at the successful append of each value
    crashed,    \* the process died on an out-of-range read
    pc,         \* position of the writer inside clear(): "idle" or "clear_set"
    twin,       \* the last call on "b" while it receives the calls made on "a"
    value_      \* SourceDir::value_, a string as a sequence of characters

vars == <<vector_, set_, cap, last, offered, firstAt, crashed, pc, twin, value_>>

(* What the calls on a UniqueVector leave alone *)
aside == <<twin, value_>>

-----------------------------------------------------------------------------
(* Bounds of the model *)

\* the values of T are 1..NumValues
NumValues == 3
\* values offered to one collection between two clears
MaxOffered == 4
\* the largest argument of reserve
MaxReserve == 2
\* the longest range handed to Append
MaxRange == 2
\* values offered to both collections together in SpecCopy
MaxShared == 3
\* the longest SourceDir string
MaxStr == 4
\* the width of size_t in the model
SizeBits == 16

Values == 1..NumValues
MaxLen == MaxOffered
Objs == {"a", "b"}

(* static_cast<size_t>(-1), in a size_t of SizeBits bits *)
NotFound == (0 - 1) % (2 ^ SizeBits)

(* std::hash<T>: a pure function of the value; values 1 and 3 collide. *)
Hash(v) == v % 2

(* The outcome of value() reading vect_ at an index_ past the end of the    *)
(* vector: any value of T, or the process dies (Trap).                     *)
Trap == 0
Junk == Values \cup {Trap}

(* The outcomes a call on a collection with index S has to choose from: the *)
(* choice matters only when S holds a reference past the end of its vector. *)
Outcomes(vecs, S) ==
    IF \E r \in S : r.index >= Len(vecs[r.vect]) THEN Junk ELSE {Trap}

Range(s) == {s[i] : i \in 1..Len(s)}

NoCall ==
    [op |-> "none", obj |-> "a", arg |-> 0, res |-> 0, before |-> <<>>,
     moved |-> FALSE]

-----------------------------------------------------------------------------
(* internal::UniquifyRef<T> *)

(* A committed reference: UniquifyRef(const std::vector<T>* v, size_t i,    *)
(* size_t hash_value).                                                      *)
RefNoHash(o, i, h) == [vect |-> o, index |-> i, hash_val |-> 0]

Ref(o, i, h) == [vect |-> o, index |-> i, hash_val |-> h]

(* UniquifyRef::value() of a committed reference, read in the vectors vecs *)
RefValue(vecs, r, junk) ==
    IF r.index < Len(vecs[r.vect]) THEN vecs[r.vect][r.index + 1] ELSE junk

(* Whether looking for hash h in set S dereferences a reference out of range *)
ReadsPastEnd(vecs, S, h) ==
    \E r \in S : r.hash_val = h /\ r.index >= Len(vecs[r.vect])

(* Find with the value comparison left out: a hit on the cached hash alone *)
FindHashOnly(vecs, S, t, junk) ==
    {r \in S : r.hash_val = Hash(t)}

(* set_.find(Ref(&t)): the entries in the bucket of t's hash whose value()  *)
(* equals t (operator== of UniquifyRef compares value()).                   *)
Find(vecs, S, t, junk) ==
    {r \in S : r.hash_val = Hash(t) /\ RefValue(vecs, r, junk) = t}

(* set_.insert(r): an unordered_set keeps one entry per equal key *)
Insert(vecs, S, r, junk) ==
    IF Find(vecs, S, RefValue(vecs, r, junk), junk) # {} THEN S ELSE S \cup {r}

-----------------------------------------------------------------------------
(* std::vector<T> capacity *)

(* capacity after a push_back on a full vector (geometric growth) *)
Grow(c) == IF c = 0 THEN 1 ELSE 2 * c

CapAfterPush(c, n) == IF n < c THEN c ELSE Grow(c)

-----------------------------------------------------------------------------
(* UniqueVector<T> *)

Init ==
    /\ vector_ = [o \in Objs |-> <<>>]
    /\ set_ = [o \in Objs |-> {}]
    /\ cap = [o \in Objs |-> 0]
    /\ last = NoCall
    /\ offered = [o \in Objs |-> <<>>]
    /\ firstAt = [o \in Objs |-> [v \in Values |-> NotFound]]
    /\ crashed = FALSE
    /\ pc = "idle"
    /\ twin = NoCall
    /\ value_ = <<>>

Running == ~crashed /\ pc = "idle"

(* The part of the state a call on a UniqueVector reads and writes, with the *)
(* value it returns.                                                         *)
World ==
    [vector_ |-> vector_, set_ |-> set_, cap |-> cap, offered |-> offered,
     firstAt |-> firstAt, crashed |-> crashed, res |-> FALSE,
     moved |-> FALSE]

(* Commit that forgets set_.insert *)
CommitNoInsert(W, o, t, junk) ==
    [W EXCEPT !.vector_[o] = Append(@, t),
              !.cap[o] = CapAfterPush(@, Len(W.vector_[o])),
              !.offered[o] = Append(@, t),
              !.firstAt[o][t] = Len(W.vector_[o]),
              !.res = TRUE]

(* Commit that records vector_.size() instead of vector_.size() - 1 *)
CommitIndexOffByOne(W, o, t, junk) ==
    LET vecs == [W.vector_ EXCEPT ![o] = Append(@, t)]
    IN  [W EXCEPT !.vector_ = vecs,
                  !.set_[o] = @ \cup {Ref(o, Len(vecs[o]), Hash(t))},
                  !.cap[o] = CapAfterPush(@, Len(W.vector_[o])),
                  !.offered[o] = Append(@, t),
                  !.firstAt[o][t] = Len(W.vector_[o]),
                  !.res = TRUE]

(* Commit that inserts the new element at the front of vector_ *)
CommitFront(W, o, t, junk) ==
    LET vecs == [W.vector_ EXCEPT ![o] = <<t>> \o @]
    IN  [W EXCEPT !.vector_ = vecs,
                  !.set_[o] = Insert(vecs, @, Ref(o, Len(vecs[o]) - 1, Hash(t)), junk),
                  !.cap[o] = CapAfterPush(@, Len(W.vector_[o])),
                  !.offered[o] = Append(@, t),
                  !.firstAt[o][t] = Len(W.vector_[o]),
                  !.res = TRUE]

(* vector_.push_back(t); set_.insert(Ref(&vector_, vector_.size() - 1, hash)); *)
(* return true.                                                               *)
Commit(W, o, t, junk) ==
    LET vecs == [W.vector_ EXCEPT ![o] = Append(@, t)]
    IN  [W EXCEPT !.vector_ = vecs,
                  !.set_[o] = Insert(vecs, @, Ref(o, Len(vecs[o]) - 1, Hash(t)), junk),
                  !.cap[o] = CapAfterPush(@, Len(W.vector_[o])),
                  !.offered[o] = Append(@, t),
                  !.firstAt[o][t] = Len(W.vector_[o]),
                  !.res = TRUE]

(* Reject that stores the value again before returning false *)
RejectStoresAgain(W, o, t) ==
    [W EXCEPT !.vector_[o] = Append(@, t), !.offered[o] = Append(@, t),
              !.res = FALSE]

(* if (set_.find(ref) != set_.end()) return false; *)
Reject(W, o, t) ==
    [W EXCEPT !.offered[o] = Append(@, t), !.res = FALSE]

(* push_back without the probe of set_ *)
PushBackNoProbe(W, o, t, junk) ==
    IF W.crashed THEN W ELSE Commit(W, o, t, junk)

(* One call of push_back(const T& t) on o, from W: probe with Ref(&t),      *)
(* return false on a hit, otherwise append and insert with the hash         *)
(* computed by the probe.                                                   *)
PushBack(W, o, t, junk) ==
    IF W.crashed THEN W
    ELSE IF ReadsPastEnd(W.vector_, W.set_[o], Hash(t)) /\ junk = Trap
         THEN [W EXCEPT !.crashed = TRUE]
         ELSE IF Find(W.vector_, W.set_[o], t, junk) # {}
              THEN Reject(W, o, t)
              ELSE Commit(W, o, t, junk)

(* The commit of the move overload with the hash taken from t after t was   *)
(* moved into vector_ (a moved-from T is modelled as the value 0)           *)
CommitMoveRehash(W, o, t, junk) ==
    LET moved_from == 0
        vecs == [W.vector_ EXCEPT ![o] = Append(@, t)]
    IN  [W EXCEPT !.vector_ = vecs,
                  !.set_[o] = Insert(vecs, @, Ref(o, Len(vecs[o]) - 1,
                                                  Hash(moved_from)), junk),
                  !.cap[o] = CapAfterPush(@, Len(W.vector_[o])),
                  !.offered[o] = Append(@, t),
                  !.firstAt[o][t] = Len(W.vector_[o]),
                  !.res = TRUE,
                  !.moved = TRUE]

(* auto ref_hash_val = ref.hash_val(); vector_.push_back(std::move(t));     *)
(* set_.insert(Ref(&vector_, vector_.size() - 1, ref_hash_val)); return     *)
(* true.  t is moved from.                                                  *)
CommitMove(W, o, t, junk) ==
    LET ref_hash_val == Hash(t)
        vecs == [W.vector_ EXCEPT ![o] = Append(@, t)]
    IN  [W EXCEPT !.vector_ = vecs,
                  !.set_[o] = Insert(vecs, @, Ref(o, Len(vecs[o]) - 1,
                                                  ref_hash_val), junk),
                  !.cap[o] = CapAfterPush(@, Len(W.vector_[o])),
                  !.offered[o] = Append(@, t),
                  !.firstAt[o][t] = Len(W.vector_[o]),
                  !.res = TRUE,
                  !.moved = TRUE]

(* One call of push_back(T&& t) on o, from W: probe with Ref(&t), return    *)
(* false on a hit with t untouched, otherwise CommitMove                    *)
PushBackMove(W, o, t, junk) ==
    IF W.crashed THEN W
    ELSE IF ReadsPastEnd(W.vector_, W.set_[o], Hash(t)) /\ junk = Trap
         THEN [W EXCEPT !.crashed = TRUE]
         ELSE IF Find(W.vector_, W.set_[o], t, junk) # {}
              THEN Reject(W, o, t)
              ELSE CommitMove(W, o, t, junk)

RECURSIVE AppendLoop(_, _, _, _)
RECURSIVE AppendLoopStopsAtDuplicate(_, _, _, _)

(* AppendLoop that leaves the loop at the first element push_back rejects *)
AppendLoopStopsAtDuplicate(W, o, range, junk) ==
    IF range = <<>> THEN W
    ELSE LET V == PushBack(W, o, Head(range), junk)
         IN  IF V.res THEN AppendLoopStopsAtDuplicate(V, o, Tail(range), junk)
             ELSE V

(* for (iter i = begin; i != end; ++i): push_back of the element at i *)
AppendLoop(W, o, range, junk) ==
    IF range = <<>> THEN W
    ELSE AppendLoop(PushBack(W, o, Head(range), junk), o, Tail(range), junk)

(* The state after a call that ended in W *)
Becomes(W) ==
    /\ vector_' = W.vector_
    /\ set_' = W.set_
    /\ cap' = W.cap
    /\ offered' = W.offered
    /\ firstAt' = W.firstAt
    /\ crashed' = W.crashed

(* A call as its caller sees it: the arguments, the result, the sequence    *)
(* before it, and whether the argument was moved from                       *)
Call(opname, o, arg, res, before) ==
    [op |-> opname, obj |-> o, arg |-> arg, res |-> res, before |-> before,
     moved |-> FALSE]

(* bool push_back(const T& t) *)
push_back(o, t) ==
    /\ Running
    /\ Len(vector_[o]) < MaxLen
    /\ Len(offered[o]) < MaxOffered
    /\ \E junk \in Outcomes(vector_, set_[o]) :
         LET W == PushBack(World, o, t, junk)
         IN  /\ Becomes(W)
             /\ last' = IF W.crashed THEN last
                        ELSE Call("push_back", o, t, W.res, vector_[o])
    /\ UNCHANGED <<pc, aside>>

(* bool push_back(T&& t) *)
push_back_move(o, t) ==
    /\ Running
    /\ Len(vector_[o]) < MaxLen
    /\ Len(offered[o]) < MaxOffered
    /\ \E junk \in Outcomes(vector_, set_[o]) :
         LET W == PushBackMove(World, o, t, junk)
         IN  /\ Becomes(W)
             /\ last' = IF W.crashed THEN last
                        ELSE [Call("push_back_move", o, t, W.res, vector_[o])
                                  EXCEPT !.moved = W.moved]
    /\ UNCHANGED <<pc, aside>>

(* template <typename iter> void Append(const iter& begin, const iter& end) *)
AppendRange(o, range) ==
    /\ Running
    /\ Len(vector_[o]) + Len(range) <= MaxLen
    /\ Len(offered[o]) + Len(range) <= MaxOffered
    /\ \E junk \in Outcomes(vector_, set_[o]) :
         LET W == AppendLoop(World, o, range, junk)
         IN  /\ Becomes(W)
             /\ last' = IF W.crashed THEN last
                        ELSE Call("Append", o, range, 0, vector_[o])
    /\ UNCHANGED <<pc, aside>>

(* ClearVector that leaves the elements *)
ClearVectorNothing(W, o) == W

(* vector_.clear(): the elements go, the capacity stays *)
ClearVector(W, o) ==
    [W EXCEPT !.vector_[o] = <<>>,
              !.offered[o] = <<>>,
              !.firstAt[o] = [v \in Values |-> NotFound]]

(* ClearSet that leaves the references *)
ClearSetNothing(W, o) == W

(* set_.clear() *)
ClearSet(W, o) == [W EXCEPT !.set_[o] = {}]

(* The body of clear(): vector_.clear(); set_.clear(); *)
Clear(W, o) == ClearSet(ClearVector(W, o), o)

(* void clear() *)
clear(o) ==
    /\ Running
    /\ Becomes(Clear(World, o))
    /\ last' = Call("clear", o, 0, 0, <<>>)
    /\ UNCHANGED <<pc, aside>>

(* Reserve that resizes: the elements from index s on are dropped *)
ReserveShrinks(W, o, s) ==
    [W EXCEPT !.cap[o] = IF s > @ THEN s ELSE @,
              !.vector_[o] = IF s < Len(@) THEN SubSeq(@, 1, s) ELSE @]

(* vector_.reserve(s): the capacity becomes s when s is larger *)
Reserve(W, o, s) == [W EXCEPT !.cap[o] = IF s > @ THEN s ELSE @]

(* void reserve(size_t s) *)
reserve(o, s) ==
    /\ Running
    /\ Becomes(Reserve(World, o, s))
    /\ last' = Call("reserve", o, s, 0, <<>>)
    /\ UNCHANGED <<pc, aside>>

(* What IndexOf(t) on o can return in W: found->index(), or (size_t)(-1) *)
IndexOfIn(W, o, t, junk) ==
    IF Find(W.vector_, W.set_[o], t, junk) = {}
    THEN {NotFound}
    ELSE {r.index : r \in Find(W.vector_, W.set_[o], t, junk)}

IndexOfResults(o, t, junk) == IndexOfIn(World, o, t, junk)

(* The calls below are const: they run whatever the writer is doing *)
Alive == ~crashed

(* size_t IndexOf(const T& t) const *)
IndexOf(o, t) ==
    /\ Alive
    /\ \E junk \in Outcomes(vector_, set_[o]) :
         IF ReadsPastEnd(vector_, set_[o], Hash(t)) /\ junk = Trap
         THEN /\ crashed' = TRUE
              /\ UNCHANGED last
         ELSE /\ \E i \in IndexOfResults(o, t, junk) :
                   last' = Call("IndexOf", o, t, i, <<>>)
              /\ UNCHANGED crashed
    /\ UNCHANGED <<vector_, set_, cap, offered, firstAt, pc, aside>>

(* size_t size() const *)
size(o) ==
    /\ Alive
    /\ last' = Call("size", o, 0, Len(vector_[o]), <<>>)
    /\ UNCHANGED <<vector_, set_, cap, offered, firstAt, crashed, pc, aside>>

(* bool empty() const *)
empty(o) ==
    /\ Alive
    /\ last' = Call("empty", o, 0, vector_[o] = <<>>, <<>>)
    /\ UNCHANGED <<vector_, set_, cap, offered, firstAt, crashed, pc, aside>>

(* const T& operator[](size_t index) const, called with index < size() *)
At(o, index) ==
    /\ Alive
    /\ index < Len(vector_[o])
    /\ last' = Call("operator[]", o, index, vector_[o][index + 1], <<>>)
    /\ UNCHANGED <<vector_, set_, cap, offered, firstAt, crashed, pc, aside>>

(* begin() .. end(): the elements in storage order *)
Iterate(o) ==
    /\ Alive
    /\ last' = Call("begin", o, 0, vector_[o], <<>>)
    /\ UNCHANGED <<vector_, set_, cap, offered, firstAt, crashed, pc, aside>>

(* The ranges handed to Append *)
Ranges == UNION {[1..n -> Values] : n \in 0..MaxRange}

(* The calls that change a collection *)
Mutate(o) ==
    \/ \E t \in Values : push_back(o, t)
    \/ \E t \in Values : push_back_move(o, t)
    \/ \E range \in Ranges : AppendRange(o, range)
    \/ \E s \in 0..MaxReserve : reserve(o, s)

(* The calls that read a collection *)
Observe(o) ==
    \/ \E t \in Values : IndexOf(o, t)
    \/ size(o)
    \/ empty(o)
    \/ \E i \in 0..(MaxLen - 1) : At(o, i)
    \/ Iterate(o)

(* One UniqueVector, "a", under every operation of its public interface *)
Next ==
    \/ Mutate("a")
    \/ clear("a")
    \/ Observe("a")

Spec == Init /\ [][Next]_vars

-----------------------------------------------------------------------------
(* A cleared collection beside a freshly constructed one (SpecFresh).      *)
(* "a" runs any calls and is then cleared; from there on every call made   *)
(* on "a" is also made on "b", which nothing has touched since its         *)
(* construction.  last holds the call on "a" and twin the call on "b".     *)

Paired == twin.op # "none"

(* a.clear(), and b is taken as the fresh instance *)
StartTwin ==
    /\ Running
    /\ ~Paired
    /\ Becomes(Clear(World, "a"))
    /\ last' = Call("clear", "a", 0, 0, <<>>)
    /\ twin' = Call("construct", "b", 0, 0, <<>>)
    /\ UNCHANGED <<pc, value_>>

(* The calls recorded after a step that ended in W *)
Recorded(W, callA, callB) ==
    /\ Becomes(W)
    /\ last' = IF W.crashed THEN last ELSE callA
    /\ twin' = IF W.crashed THEN twin ELSE callB
    /\ UNCHANGED <<pc, value_>>

BothPushBack(t) ==
    /\ Running /\ Paired
    /\ \A o \in Objs : Len(vector_[o]) < MaxLen /\ Len(offered[o]) < MaxOffered
    /\ \E junk \in Outcomes(vector_, set_["a"]) :
         LET Wa == PushBack(World, "a", t, junk)
             Wb == PushBack(Wa, "b", t, junk)
         IN  Recorded(Wb, Call("push_back", "a", t, Wa.res, vector_["a"]),
                          Call("push_back", "b", t, Wb.res, vector_["b"]))

BothAppend(range) ==
    /\ Running /\ Paired
    /\ \A o \in Objs : /\ Len(vector_[o]) + Len(range) <= MaxLen
                       /\ Len(offered[o]) + Len(range) <= MaxOffered
    /\ \E junk \in Outcomes(vector_, set_["a"]) :
         LET Wa == AppendLoop(World, "a", range, junk)
             Wb == AppendLoop(Wa, "b", range, junk)
         IN  Recorded(Wb, Call("Append", "a", 0, 0, vector_["a"]),
                          Call("Append", "b", 0, 0, vector_["b"]))

BothReserve(s) ==
    /\ Running /\ Paired
    /\ Recorded(Reserve(Reserve(World, "a", s), "b", s),
                Call("reserve", "a", s, 0, <<>>), Call("reserve", "b", s, 0, <<>>))

BothClear ==
    /\ Running /\ Paired
    /\ Recorded(Clear(Clear(World, "a"), "b"),
                Call("clear", "a", 0, 0, <<>>), Call("clear", "b", 0, 0, <<>>))

BothIndexOf(t) ==
    /\ Running /\ Paired
    /\ \E junk \in Outcomes(vector_, set_["a"]) :
         IF ReadsPastEnd(vector_, set_["a"], Hash(t)) /\ junk = Trap
         THEN Recorded([World EXCEPT !.crashed = TRUE], last, twin)
         ELSE \E i \in IndexOfIn(World, "a", t, junk) :
              \E j \in IndexOfIn(World, "b", t, junk) :
                  Recorded(World, Call("IndexOf", "a", t, i, <<>>),
                                  Call("IndexOf", "b", t, j, <<>>))

BothSize ==
    /\ Running /\ Paired
    /\ Recorded(World, Call("size", "a", 0, Len(vector_["a"]), <<>>),
                       Call("size", "b", 0, Len(vector_["b"]), <<>>))

BothEmpty ==
    /\ Running /\ Paired
    /\ Recorded(World, Call("empty", "a", 0, vector_["a"] = <<>>, <<>>),
                       Call("empty", "b", 0, vector_["b"] = <<>>, <<>>))

NextFresh ==
    \/ ~Paired /\ Mutate("a")
    \/ ~Paired /\ clear("a")
    \/ StartTwin
    \/ \E t \in Values : BothPushBack(t)
    \/ \E range \in Ranges : BothAppend(range)
    \/ \E s \in 0..MaxReserve : BothReserve(s)
    \/ BothClear
    \/ \E t \in Values : BothIndexOf(t)
    \/ BothSize
    \/ BothEmpty

SpecFresh == Init /\ [][NextFresh]_vars

-----------------------------------------------------------------------------
(* Two collections, one copied or moved from the other (SpecCopy).         *)
(* UniqueVector declares no copy or move operation, so the compiler's      *)
(* member-wise ones apply: set_ and vector_ are copied or moved as they    *)
(* are, and each UniquifyRef keeps the vect_ pointer it was built with.    *)

(* dst = src, and UniqueVector dst(src) *)
CopyAssign(dst, src) ==
    /\ Running
    /\ dst # src
    /\ vector_' = [vector_ EXCEPT ![dst] = vector_[src]]
    /\ set_' = [set_ EXCEPT ![dst] = set_[src]]
    /\ cap' = [cap EXCEPT ![dst] = IF Len(vector_[src]) > @ THEN Len(vector_[src]) ELSE @]
    /\ offered' = [offered EXCEPT ![dst] = offered[src]]
    /\ firstAt' = [firstAt EXCEPT ![dst] = firstAt[src]]
    /\ last' = Call("copy", dst, 0, 0, <<>>)
    /\ UNCHANGED <<crashed, pc, aside>>

(* dst = std::move(src): dst takes the buffer and the nodes, src is empty *)
MoveAssign(dst, src) ==
    /\ Running
    /\ dst # src
    /\ vector_' = [vector_ EXCEPT ![dst] = vector_[src], ![src] = <<>>]
    /\ set_' = [set_ EXCEPT ![dst] = set_[src], ![src] = {}]
    /\ cap' = [cap EXCEPT ![dst] = cap[src], ![src] = 0]
    /\ offered' = [offered EXCEPT ![dst] = offered[src], ![src] = <<>>]
    /\ firstAt' = [firstAt EXCEPT ![dst] = firstAt[src],
                                  ![src] = [v \in Values |-> NotFound]]
    /\ last' = Call("move", dst, 0, 0, <<>>)
    /\ UNCHANGED <<crashed, pc, aside>>

(* The values offered to all collections together *)
TotalOffered == Len(offered["a"]) + Len(offered["b"])

NextCopy ==
    \/ \E o \in Objs : \E t \in Values : TotalOffered < MaxShared /\ push_back(o, t)
    \/ \E o \in Objs : clear(o)
    \/ \E o \in Objs : \E t \in Values : IndexOf(o, t)
    \/ \E dst, src \in Objs : CopyAssign(dst, src)
    \/ \E dst, src \in Objs : MoveAssign(dst, src)

SpecCopy == Init /\ [][NextCopy]_vars

-----------------------------------------------------------------------------
(* A reader beside the writer (SpecRace).  clear() is two statements and   *)
(* the class holds no lock, so a reader on another thread can run between  *)
(* them; the const calls are the reader's.                                 *)

(* clear(), first statement: vector_.clear() *)
ClearVectorStep(o) ==
    /\ Running
    /\ Becomes(ClearVector(World, o))
    /\ pc' = "clear_set"
    /\ last' = Call("clear_enter", o, 0, 0, <<>>)
    /\ UNCHANGED aside

(* clear(), second statement: set_.clear(), and the call returns *)
ClearSetStep(o) ==
    /\ Alive
    /\ pc = "clear_set"
    /\ Becomes(ClearSet(World, o))
    /\ pc' = "idle"
    /\ last' = Call("clear", o, 0, 0, <<>>)
    /\ UNCHANGED aside

NextRace ==
    \/ Mutate("a")
    \/ ClearVectorStep("a")
    \/ ClearSetStep("a")
    \/ Observe("a")

SpecRace == Init /\ [][NextRace]_vars

-----------------------------------------------------------------------------
(* SourceDir (SpecDir).  A string is a sequence of characters. *)

Chars == {"/", "a", "."}

Strings == UNION {[1..n -> Chars] : n \in 0..MaxStr}

(* bool is_null() const *)
IsNull(v) == v = <<>>

(* bool is_source_absolute() const *)
IsSourceAbsolute(v) == Len(v) >= 2 /\ v[1] = "/" /\ v[2] = "/"

(* bool is_system_absolute() const *)
IsSystemAbsolute(v) == ~IsSourceAbsolute(v)

uvvars == <<vector_, set_, cap, offered, firstAt, crashed, pc, twin>>

(* std::string_view SourceAbsoluteWithOneSlash() const.  Its first line is *)
(* CHECK(is_source_absolute()): the call returns only when that holds.     *)
SourceAbsoluteWithOneSlashNoCheck(v) == TRUE

SourceAbsoluteWithOneSlashReturns(v) == IsSourceAbsolute(v)

(* return std::string_view(&value_[1], value_.size() - 1) *)
SourceAbsoluteWithOneSlash(v) == SubSeq(v, 2, Len(v))

(* std::string_view SourceWithNoTrailingSlash() const *)
SourceWithNoTrailingSlashShort(v) ==
    IF Len(v) > 1 THEN SubSeq(v, 1, Len(v) - 1) ELSE v

SourceWithNoTrailingSlash(v) ==
    IF Len(v) > 2 THEN SubSeq(v, 1, Len(v) - 1) ELSE v

(* SourceDir() = default *)
DefaultConstruct ==
    /\ Alive
    /\ value_' = <<>>
    /\ last' = Call("SourceDir", "dir", 0, 0, <<>>)
    /\ UNCHANGED uvvars

(* SourceDir(const std::string& s), SourceDir(std::string&& s): s is stored *)
(* as it is                                                                 *)
Construct(s) ==
    /\ Alive
    /\ value_' = s
    /\ last' = Call("SourceDir", "dir", 0, 0, <<>>)
    /\ UNCHANGED uvvars

is_null ==
    /\ Alive
    /\ last' = Call("is_null", "dir", 0, IsNull(value_), <<>>)
    /\ UNCHANGED <<value_, uvvars>>

is_source_absolute ==
    /\ Alive
    /\ last' = Call("is_source_absolute", "dir", 0, IsSourceAbsolute(value_), <<>>)
    /\ UNCHANGED <<value_, uvvars>>

is_system_absolute ==
    /\ Alive
    /\ last' = Call("is_system_absolute", "dir", 0, IsSystemAbsolute(value_), <<>>)
    /\ UNCHANGED <<value_, uvvars>>

(* A failed CHECK ends the process: nothing is returned, crashed is set *)
source_absolute_with_one_slash ==
    /\ Alive
    /\ IF SourceAbsoluteWithOneSlashReturns(value_)
       THEN /\ last' = Call("SourceAbsoluteWithOneSlash", "dir", 0,
                            SourceAbsoluteWithOneSlash(value_), <<>>)
            /\ UNCHANGED crashed
       ELSE /\ crashed' = TRUE
            /\ UNCHANGED last
    /\ UNCHANGED <<value_, vector_, set_, cap, offered, firstAt, pc, twin>>

source_with_no_trailing_slash ==
    /\ Alive
    /\ last' = Call("SourceWithNoTrailingSlash", "dir", 0,
                    SourceWithNoTrailingSlash(value_), <<>>)
    /\ UNCHANGED <<value_, uvvars>>

NextDir ==
    \/ DefaultConstruct
    \/ \E s \in Strings : Construct(s)
    \/ is_null
    \/ is_source_absolute
    \/ is_system_absolute
    \/ source_absolute_with_one_slash
    \/ source_with_no_trailing_slash

SpecDir == Init /\ [][NextDir]_vars

-----------------------------------------------------------------------------
(* SourceDir comparison and hashing (SpecCmp): this SourceDir against a     *)
(* second one that holds the string s.                                      *)

MaxCmp == 2

CmpStrings == UNION {[1..n -> Chars] : n \in 0..MaxCmp}

(* The value of a char *)
Code(c) == CASE c = "." -> 46 [] c = "/" -> 47 [] c = "a" -> 97

(* std::string operator== *)
StringEqual(a, b) ==
    /\ Len(a) = Len(b)
    /\ \A i \in 1..Len(a) : Code(a[i]) = Code(b[i])

(* std::string operator<: the first differing char decides, a proper prefix *)
(* is less                                                                  *)
RECURSIVE StringLess(_, _)
StringLess(a, b) ==
    IF b = <<>> THEN FALSE
    ELSE IF a = <<>> THEN TRUE
    ELSE IF Code(Head(a)) < Code(Head(b)) THEN TRUE
    ELSE IF Code(Head(a)) > Code(Head(b)) THEN FALSE
    ELSE StringLess(Tail(a), Tail(b))

(* std::hash<std::string>: a function of the chars, in size_t arithmetic *)
RECURSIVE HashString(_)
HashString(str) ==
    IF str = <<>> THEN 7
    ELSE (HashString(SubSeq(str, 1, Len(str) - 1)) * 31 + Code(str[Len(str)]))
             % (2 ^ SizeBits)

(* A SourceDir object: where it is and the string it holds *)
Dir(at, v) == [at |-> at, value_ |-> v]

(* bool operator==(const SourceDir& other) const *)
OperatorEq(a, b) == StringEqual(a.value_, b.value_)

(* bool operator!=(const SourceDir& other) const *)
OperatorNe(a, b) == ~OperatorEq(a, b)

(* bool operator<(const SourceDir& other) const *)
OperatorLess(a, b) == StringLess(a.value_, b.value_)

(* std::hash<SourceDir>::operator() *)
HashSourceDirByAddress(v) ==
    (HashString(v.value_) + (IF v.at = "other" THEN 1 ELSE 0)) % (2 ^ SizeBits)

HashSourceDir(v) == HashString(v.value_)

operator_eq(s) ==
    /\ Alive
    /\ last' = Call("operator==", "dir", s,
                    OperatorEq(Dir("dir", value_), Dir("other", s)), <<>>)
    /\ UNCHANGED <<value_, uvvars>>

operator_ne(s) ==
    /\ Alive
    /\ last' = Call("operator!=", "dir", s,
                    OperatorNe(Dir("dir", value_), Dir("other", s)), <<>>)
    /\ UNCHANGED <<value_, uvvars>>

operator_less(s) ==
    /\ Alive
    /\ last' = Call("operator<", "dir", s,
                    OperatorLess(Dir("dir", value_), Dir("other", s)), <<>>)
    /\ UNCHANGED <<value_, uvvars>>

(* The hashes of both SourceDirs *)
hash(s) ==
    /\ Alive
    /\ last' = Call("hash", "dir", s,
                    <<HashSourceDir(Dir("dir", value_)),
                      HashSourceDir(Dir("other", s))>>, <<>>)
    /\ UNCHANGED <<value_, uvvars>>

NextCmp ==
    \/ \E s \in CmpStrings : Construct(s)
    \/ \E s \in CmpStrings : operator_eq(s)
    \/ \E s \in CmpStrings : operator_ne(s)
    \/ \E s \in CmpStrings : operator_less(s)
    \/ \E s \in CmpStrings : hash(s)

SpecCmp == Init /\ [][NextCmp]_vars

-----------------------------------------------------------------------------
(* SourceDir path resolution (SpecResolve).  ResolveRelativeAs is declared   *)
(* in the header and defined elsewhere: it is modelled from its documented   *)
(* behaviour.                                                                *)

SourceRoots == {<<>>, <<"/", "a">>}

NoErr == "none"

Failed(kind) == [str |-> <<>>, err |-> kind]

Resolved(str) == [str |-> str, err |-> NoErr]

LeadingSlashes(str) ==
    IF IsSourceAbsolute(str) THEN 2
    ELSE IF Len(str) >= 1 /\ str[1] = "/" THEN 1
    ELSE 0

(* The segments between the separators of str *)
RECURSIVE SplitFrom(_, _, _)
SplitFrom(str, cur, acc) ==
    IF str = <<>> THEN (IF cur = <<>> THEN acc ELSE Append(acc, cur))
    ELSE IF Head(str) = "/"
         THEN SplitFrom(Tail(str), <<>>, IF cur = <<>> THEN acc ELSE Append(acc, cur))
         ELSE SplitFrom(Tail(str), Append(cur, Head(str)), acc)

(* Lexical collapsing of "." and "..": ok is FALSE when a ".." would leave *)
(* the root                                                                *)
RECURSIVE CollapseFrom(_, _)
CollapseFrom(segs, stack) ==
    IF segs = <<>> THEN [ok |-> TRUE, segs |-> stack]
    ELSE IF Head(segs) = <<".">> THEN CollapseFrom(Tail(segs), stack)
    ELSE IF Head(segs) = <<".", ".">>
         THEN IF stack = <<>> THEN [ok |-> FALSE, segs |-> <<>>]
              ELSE CollapseFrom(Tail(segs), SubSeq(stack, 1, Len(stack) - 1))
    ELSE CollapseFrom(Tail(segs), Append(stack, Head(segs)))

RECURSIVE JoinSegs(_)
JoinSegs(segs) ==
    IF segs = <<>> THEN <<>>
    ELSE IF Len(segs) = 1 THEN Head(segs)
    ELSE Head(segs) \o <<"/">> \o JoinSegs(Tail(segs))

Collapsed(str) ==
    CollapseFrom(SplitFrom(SubSeq(str, LeadingSlashes(str) + 1, Len(str)),
                           <<>>, <<>>), <<>>)

HasTrailingSlash(str) == Len(str) >= 1 /\ str[Len(str)] = "/"

(* A file path has no trailing separator, a directory path always has one *)
AsFileOrDir(as_file, str) ==
    IF as_file
    THEN IF HasTrailingSlash(str) THEN Failed("TrailingSeparator") ELSE Resolved(str)
    ELSE IF HasTrailingSlash(str) THEN Resolved(str) ELSE Resolved(str \o <<"/">>)

HasPrefix(str, prefix) ==
    /\ Len(prefix) <= Len(str)
    /\ SubSeq(str, 1, Len(prefix)) = prefix

(* A system-absolute input inside the source root becomes source-absolute *)
InsideSourceRoot(input, source_root) ==
    LET rest == SubSeq(input, Len(source_root) + 1, Len(input))
    IN  <<"/", "/">> \o (IF HasPrefix(rest, <<"/">>) THEN Tail(rest) ELSE rest)

(* std::string ResolveRelativeAs(as_file, blame, input, err, source_root) *)
ResolveRelativeAs(base, as_file, input, source_root) ==
    IF input = <<>> THEN Failed("EmptyInput")
    ELSE IF IsSourceAbsolute(input)
         THEN IF Collapsed(input).ok THEN AsFileOrDir(as_file, input)
              ELSE Failed("PathEscapesRoot")
    ELSE IF HasPrefix(input, <<"/">>)
         THEN IF source_root # <<>> /\ HasPrefix(input, source_root)
              THEN AsFileOrDir(as_file, InsideSourceRoot(input, source_root))
              ELSE AsFileOrDir(as_file, input)
    ELSE LET full == base \o input
             c    == Collapsed(full)
             path == SubSeq(full, 1, LeadingSlashes(full)) \o JoinSegs(c.segs)
         IN  IF ~c.ok THEN Failed("PathEscapesRoot")
             ELSE IF HasTrailingSlash(full) /\ c.segs # <<>>
                  THEN AsFileOrDir(as_file, path \o <<"/">>)
                  ELSE AsFileOrDir(as_file, path)

(* SourceDir ResolveRelativeDir(blame, input, err, source_root):             *)
(*   SourceDir ret; ret.value_ = ResolveRelativeAs(false, ...); return ret;  *)
ResolveRelativeDirFromThis(base, input, source_root) ==
    LET r == ResolveRelativeAs(base, FALSE, input, source_root)
    IN  [ret |-> Dir("ret", IF r.err = NoErr THEN r.str ELSE base),
         err |-> r.err]

ResolveRelativeDir(base, input, source_root) ==
    LET r == ResolveRelativeAs(base, FALSE, input, source_root)
    IN  [ret |-> Dir("ret", r.str), err |-> r.err]

resolve_relative_as(as_file, input, source_root) ==
    /\ Alive
    /\ last' = Call("ResolveRelativeAs", "dir",
                    [as_file |-> as_file, input |-> input,
                     source_root |-> source_root],
                    ResolveRelativeAs(value_, as_file, input, source_root), <<>>)
    /\ UNCHANGED <<value_, uvvars>>

resolve_relative_dir(input, source_root) ==
    /\ Alive
    /\ last' = Call("ResolveRelativeDir", "dir",
                    [as_file |-> FALSE, input |-> input,
                     source_root |-> source_root],
                    ResolveRelativeDir(value_, input, source_root), <<>>)
    /\ UNCHANGED <<value_, uvvars>>

NextResolve ==
    \/ \E s \in CmpStrings : Construct(s)
    \/ \E as_file \in BOOLEAN, input \in CmpStrings, source_root \in SourceRoots :
           resolve_relative_as(as_file, input, source_root)
    \/ \E input \in CmpStrings, source_root \in SourceRoots :
           resolve_relative_dir(input, source_root)

SpecResolve == Init /\ [][NextResolve]_vars

-----------------------------------------------------------------------------
(* Properties of one UniqueVector under its public interface (Spec) *)

PushOps == {"push_back", "push_back_move"}

IsPush(call, o, t) == call.op \in PushOps /\ call.obj = o /\ call.arg = t

(* s with every non-first occurrence of a value removed *)
RECURSIVE Dedup(_)
Dedup(s) ==
    IF s = <<>> THEN <<>>
    ELSE LET d == Dedup(SubSeq(s, 1, Len(s) - 1))
         IN  IF s[Len(s)] \in Range(d) THEN d ELSE Append(d, s[Len(s)])

(* C1: no two distinct indices of the stored sequence hold equal values, in *)
(* every state reached by push_back (either overload), Append, reserve and  *)
(* clear.                                                                   *)
C1_NoDuplicates ==
    \A o \in Objs : \A i, j \in 1..Len(vector_[o]) :
        i # j => vector_[o][i] # vector_[o][j]

(* A duplicate was offered to a collection of two or more elements *)
C1_Witness ==
    /\ last.op = "push_back"
    /\ last.res = FALSE
    /\ Len(vector_["a"]) >= 2
    /\ Len(offered["a"]) > Len(vector_["a"])

(* C2: push_back(v) returns false exactly when a value equal to v is       *)
(* stored, and then the stored sequence and the index are what they were.  *)
C2_RejectLeavesUnmodified ==
    [][\A o \in Objs : \A t \in Values :
          IsPush(last', o, t) =>
            /\ (last'.res = FALSE) <=> (t \in Range(vector_[o]))
            /\ (last'.res = FALSE) => (vector_'[o] = vector_[o] /\ set_'[o] = set_[o])
      ]_vars

(* The move overload rejected a stored value whose hash another stored     *)
(* value shares                                                            *)
C2_Witness ==
    /\ last.op = "push_back_move"
    /\ last.res = FALSE
    /\ last.arg \in Range(vector_["a"])
    /\ \E u \in Range(vector_["a"]) : u # last.arg /\ Hash(u) = Hash(last.arg)

(* C3: two push_back(v) calls in a row return true then false when v was   *)
(* absent and false then false when it was present; when v was absent the  *)
(* length grows by exactly one over the two calls, v is at index old size  *)
(* and the elements before it are unchanged.                               *)
C3_TwiceInARow ==
    [][\A o \in Objs : \A t \in Values :
          (IsPush(last, o, t) /\ IsPush(last', o, t)) =>
            /\ last'.res = FALSE
            /\ last.res = (t \notin Range(last.before))
            /\ last.res = TRUE =>
                 /\ Len(vector_'[o]) = Len(last.before) + 1
                 /\ vector_'[o][Len(last.before) + 1] = t
                 /\ SubSeq(vector_'[o], 1, Len(last.before)) = last.before
            /\ last.res = FALSE => vector_'[o] = last.before
      ]_vars

(* The second of two calls with a value that the first one appended *)
C3_Witness ==
    /\ last.op = "push_back"
    /\ last.res = FALSE
    /\ Len(vector_["a"]) >= 2
    /\ vector_["a"][Len(vector_["a"])] = last.arg
    /\ last.before = vector_["a"]
    /\ offered["a"] = Append(vector_["a"], last.arg)

(* C4: IndexOf of a stored value is the position at which it was first     *)
(* successfully appended, which is inside the sequence and holds the value; *)
(* IndexOf of a value not stored is static_cast<size_t>(-1).               *)
C4_IndexOf ==
    \A o \in Objs : \A t \in Values : \A junk \in Outcomes(vector_, set_[o]) :
        /\ t \in Range(vector_[o]) =>
             /\ IndexOfResults(o, t, junk) = {firstAt[o][t]}
             /\ firstAt[o][t] < Len(vector_[o])
             /\ vector_[o][firstAt[o][t] + 1] = t
        /\ t \notin Range(vector_[o]) =>
             /\ IndexOfResults(o, t, junk) = {NotFound}
             /\ NotFound = 2 ^ SizeBits - 1
             /\ NotFound >= MaxLen

(* IndexOf found a value behind the first element while another value is   *)
(* not stored                                                              *)
C4_Witness ==
    /\ last.op = "IndexOf"
    /\ last.res # NotFound
    /\ last.res >= 1
    /\ Range(vector_["a"]) # Values
    /\ Len(offered["a"]) > Len(vector_["a"])

(* C5: the stored sequence is the offered sequence with every non-first    *)
(* occurrence removed, and size() is the number of distinct values offered. *)
C5_FirstInsertionOrder ==
    \A o \in Objs :
        /\ vector_[o] = Dedup(offered[o])
        /\ Len(vector_[o]) = Cardinality(Range(offered[o]))

(* The scenario x, y, x, z *)
C5_Witness ==
    /\ offered["a"] = <<1, 2, 1, 3>>
    /\ vector_["a"] = <<1, 2, 3>>
    /\ last.op = "IndexOf" /\ last.arg = 2 /\ last.res = 1

-----------------------------------------------------------------------------
(* Properties of a cleared collection beside a fresh one (SpecFresh) *)

(* C6: after clear, every call returns on the cleared collection what it   *)
(* returns on a freshly constructed one given the same calls, and the two  *)
(* stored sequences are the same at every step.                            *)
C6_ClearedIsFresh ==
    Paired =>
        /\ ~crashed
        /\ last.res = twin.res
        /\ vector_["a"] = vector_["b"]

(* Both rejected a duplicate, the cleared one still holding the capacity   *)
(* of its earlier elements                                                 *)
C6_Witness ==
    /\ Paired
    /\ last.op = "push_back" /\ last.res = FALSE
    /\ twin.op = "push_back" /\ twin.res = FALSE
    /\ Len(vector_["a"]) >= 2
    /\ cap["a"] > cap["b"]

-----------------------------------------------------------------------------
(* Properties of copied and moved collections (SpecCopy) *)

(* Every reference of o's index denotes o's own vector, inside its bounds *)
OwnIndex(o) ==
    \A r \in set_[o] : r.vect = o /\ r.index < Len(vector_[o])

(* IndexOf on o answers for o's own stored sequence *)
IndexOfOwn(o) ==
    \A t \in Values : \A junk \in Outcomes(vector_, set_[o]) :
        IndexOfResults(o, t, junk) =
            IF t \in Range(vector_[o])
            THEN {i \in 0..(Len(vector_[o]) - 1) : vector_[o][i + 1] = t}
            ELSE {NotFound}

(* C7: in every collection, one copied or moved from another included, the *)
(* committed references denote that collection's own vector at an index    *)
(* below its size, and IndexOf stays correct whatever happens to the       *)
(* source.                                                                 *)
C7_IndexBoundToOwnCollection ==
    /\ ~crashed
    /\ \A o \in Objs : OwnIndex(o) /\ IndexOfOwn(o)

(* What a caller of the copy sees: IndexOf answers for the copy's elements *)
C7_CopyAnswersForItself ==
    ~crashed /\ \A o \in Objs : IndexOfOwn(o)

-----------------------------------------------------------------------------
(* Properties of clear beside a reader (SpecRace) *)

(* The sequence and the index of o are both empty or both not *)
ClearedTogether(o) == (vector_[o] = <<>>) <=> (set_[o] = {})

(* C9 as stated: no reader interleaved with clear sees one of the sequence *)
(* and the index cleared and the other not.                                *)
C9_ClearAtomic ==
    last.op \in {"size", "empty", "IndexOf", "operator[]"} =>
        ClearedTogether(last.obj)

(* C9 as amended: whenever no clear is between its two statements, the     *)
(* sequence and the index are both empty or both not, and a clear that has *)
(* returned has left both empty.                                           *)
C9_ClearedTogetherBetweenCalls ==
    pc = "idle" =>
        /\ \A o \in Objs : ClearedTogether(o)
        /\ last.op = "clear" => (vector_[last.obj] = <<>> /\ set_[last.obj] = {})

(* clear has returned on a collection that had held two or more elements *)
C9_Witness ==
    /\ pc = "idle"
    /\ last.op = "clear"
    /\ cap["a"] >= 2
    /\ vector_["a"] = <<>>
    /\ set_["a"] = {}

-----------------------------------------------------------------------------
(* Properties of SourceDir (SpecDir) *)

BeginsWithTwoSlashes(v) == Len(v) >= 2 /\ v[1] = "/" /\ v[2] = "/"

BeginsWithOneSlash(v) == Len(v) >= 1 /\ v[1] = "/" /\ (Len(v) >= 2 => v[2] # "/")

(* C10: a value beginning with two slashes is source-absolute and not      *)
(* system-absolute, a value beginning with exactly one slash is            *)
(* system-absolute and not source-absolute, and the empty value is         *)
(* neither.                                                                *)
C10_Classification ==
    /\ last.op = "is_source_absolute" =>
         /\ BeginsWithTwoSlashes(value_) => last.res = TRUE
         /\ BeginsWithOneSlash(value_) => last.res = FALSE
         /\ value_ = <<>> => last.res = FALSE
    /\ last.op = "is_system_absolute" =>
         /\ BeginsWithTwoSlashes(value_) => last.res = FALSE
         /\ BeginsWithOneSlash(value_) => last.res = TRUE
         /\ value_ = <<>> => last.res = FALSE

(* C11: SourceWithNoTrailingSlash on a value that begins and ends with a    *)
(* slash returns the roots "/" and "//" as they are and every other value   *)
(* without its final slash, and the result ends with a slash only when the  *)
(* value is a root.                                                         *)
EndsWithSlash(v) == Len(v) >= 1 /\ v[Len(v)] = "/"

IsRoot(v) == v = <<"/">> \/ v = <<"/", "/">>

FollowsConvention(v) == Len(v) >= 1 /\ v[1] = "/" /\ EndsWithSlash(v)

NoTrailingSlashCalled == last.op = "SourceWithNoTrailingSlash"

C12_OneSlashOrAbort ==
    /\ last.op = "SourceAbsoluteWithOneSlash" =>
           /\ IsSourceAbsolute(value_)
           /\ <<value_[1]>> \o last.res = value_
           /\ Len(last.res) = Len(value_) - 1
           /\ last.res[1] = "/"
    /\ crashed =>
           /\ ~IsSourceAbsolute(value_)
           /\ last.op # "SourceAbsoluteWithOneSlash"

C12_Witness ==
    /\ crashed
    /\ value_ = <<>>
    /\ last.op = "SourceDir"

(* C13: equality, ordering and hash of SourceDir depend on the stored       *)
(* strings alone: a == b exactly when the strings are identical, a != b is  *)
(* the negation of a == b, a < b exactly when a's string is lexically less  *)
(* than b's, and equal SourceDirs have equal hashes.                        *)
LexicallyLess(a, b) ==
    \E k \in 0..Len(a) :
        /\ k <= Len(b)
        /\ \A i \in 1..k : a[i] = b[i]
        /\ \/ k = Len(a) /\ k < Len(b)
           \/ k < Len(a) /\ k < Len(b) /\ Code(a[k + 1]) < Code(b[k + 1])

C13_ValueSemantics ==
    /\ last.op = "operator==" => (last.res <=> value_ = last.arg)
    /\ last.op = "operator!=" =>
           (last.res <=> ~OperatorEq(Dir("dir", value_), Dir("other", last.arg)))
    /\ last.op = "operator<" => (last.res <=> LexicallyLess(value_, last.arg))
    /\ last.op = "hash" =>
           (OperatorEq(Dir("dir", value_), Dir("other", last.arg))
                => last.res[1] = last.res[2])

C13_Witness ==
    /\ last.op = "hash"
    /\ value_ = <<"/", "/">>
    /\ last.arg = <<"/", "/">>
    /\ last.res[1] = last.res[2]

(* C14: resolving the empty string is an error for every base, as_file flag *)
(* and source_root: ResolveRelativeAs returns the empty string with the     *)
(* error set and ResolveRelativeDir returns a null SourceDir; no resolution *)
(* returns a non-empty string together with an error.                       *)
C14_EmptyInputIsError ==
    /\ last.op = "ResolveRelativeAs" =>
           /\ last.arg.input = <<>> =>
                  last.res.str = <<>> /\ last.res.err # NoErr
           /\ last.res.err # NoErr => last.res.str = <<>>
    /\ last.op = "ResolveRelativeDir" =>
           /\ last.arg.input = <<>> =>
                  IsNull(last.res.ret.value_) /\ last.res.err # NoErr
           /\ last.res.err # NoErr => IsNull(last.res.ret.value_)

C14_Witness ==
    /\ last.op = "ResolveRelativeDir"
    /\ value_ = <<"/", "/">>
    /\ last.arg.input = <<>>
    /\ last.arg.source_root = <<"/", "a">>
    /\ IsNull(last.res.ret.value_)
    /\ last.res.err = "EmptyInput"

(* C15: in every state reached by push_back, Append, reserve and clear on   *)
(* one UniqueVector, set_ holds as many references as vector_ has elements, *)
(* their indices are 0 .. size - 1, each once, and the hash cached in each  *)
(* reference is the hash of the element at its index.                       *)
C15_IndexSequenceConsistent ==
    LET S == set_["a"]
        n == Len(vector_["a"])
    IN  /\ Cardinality(S) = n
        /\ {r.index : r \in S} = 0..(n - 1)
        /\ \A r \in S : /\ r.vect = "a"
                        /\ r.index < n
                        /\ r.hash_val = Hash(vector_["a"][r.index + 1])

(* Three elements are stored, two of them with the same hash *)
C15_Witness ==
    /\ Len(vector_["a"]) = 3
    /\ Cardinality(set_["a"]) = 3
    /\ \E q, r \in set_["a"] : q # r /\ q.hash_val = r.hash_val
    /\ last.op \in PushOps
    /\ last.res = TRUE

(* C16: reserve(s), for every s and also one below the size, leaves the     *)
(* size, the stored sequence and the result of every IndexOf and push_back  *)
(* as they were; a call that makes vector_ reallocate leaves every value    *)
(* stored before it at its index, and IndexOf says so.                      *)
(* push_back(t) returns true exactly when its probe of set_ finds nothing *)
ProbeMisses(W, o, t) == Find(W.vector_, W.set_[o], t, Trap) = {}

PositionsOf(seq, t) == {i - 1 : i \in {j \in 1..Len(seq) : seq[j] = t}}

C16_ReserveAndGrowthTransparent ==
    [][LET B == World
           A == World'
       IN  /\ (last'.op = "reserve" /\ last'.obj = "a") =>
                 /\ vector_' = vector_
                 /\ set_' = set_
                 /\ \A t \in Values :
                        /\ IndexOfIn(A, "a", t, Trap) = IndexOfIn(B, "a", t, Trap)
                        /\ ProbeMisses(A, "a", t) <=> ProbeMisses(B, "a", t)
           /\ (last'.op \in PushOps \cup {"Append"} /\ cap'["a"] # cap["a"]) =>
                 \A t \in Range(vector_["a"]) :
                     /\ IndexOfIn(A, "a", t, Trap) = IndexOfIn(B, "a", t, Trap)
                     /\ IndexOfIn(A, "a", t, Trap) = PositionsOf(vector_["a"], t)
      ]_vars

(* reserve was called with an s below the size of the collection *)
C16_Witness ==
    /\ last.op = "reserve"
    /\ last.arg >= 1
    /\ last.arg < Len(vector_["a"])
    /\ cap["a"] > last.arg

(* C17: Append(begin, end) leaves the state that push_back of each element  *)
(* of the range, in order, leaves: elements that occur earlier in the range *)
(* or are stored already are skipped, and the elements stored before the    *)
(* call keep their indices.                                                 *)
RECURSIVE PushEach(_, _, _)
PushEach(W, o, range) ==
    IF range = <<>> THEN W
    ELSE PushEach(PushBack(W, o, range[1], Trap), o, SubSeq(range, 2, Len(range)))

C17_AppendIsPushBackOfEach ==
    [][(last'.op = "Append" /\ last'.obj = "a") =>
          LET range == last'.arg
              E == PushEach(World, "a", range)
          IN  /\ vector_' = E.vector_
              /\ set_' = E.set_
              /\ cap' = E.cap
              /\ vector_'["a"] = Dedup(vector_["a"] \o range)
              /\ SubSeq(vector_'["a"], 1, Len(vector_["a"])) = vector_["a"]
              /\ \A t \in Range(vector_["a"]) :
                     IndexOfIn(World', "a", t, Trap) = IndexOfIn(World, "a", t, Trap)
      ]_vars

(* A range whose first element was stored already and whose second was new *)
C17_Witness ==
    /\ last.op = "Append"
    /\ last.before = <<1, 2>>
    /\ last.arg = <<2, 3>>
    /\ vector_["a"] = <<1, 2, 3>>

(* C18: push_back(T&&) returns what push_back(const T&) returns for the     *)
(* same state and value and leaves the same sequence and index; the hash    *)
(* recorded for a new entry is the hash of the value as it was before the   *)
(* move, and when the call returns false the argument is not moved from.    *)
C18_MoveLikeCopy ==
    [][\A t \in Values :
          (last'.op = "push_back_move" /\ last'.obj = "a" /\ last'.arg = t) =>
              LET C == PushBack(World, "a", t, Trap)
              IN  /\ last'.res = C.res
                  /\ vector_' = C.vector_
                  /\ set_' = C.set_
                  /\ \A u \in Values :
                         IndexOfIn(World', "a", u, Trap) = IndexOfIn(C, "a", u, Trap)
                  /\ last'.res = TRUE =>
                         \E r \in set_'["a"] :
                             /\ r.index = Len(vector_["a"])
                             /\ r.hash_val = Hash(t)
                  /\ last'.res = FALSE => ~last'.moved
      ]_vars

(* The move overload stored a value whose hash a stored value shares *)
C18_Witness ==
    /\ last.op = "push_back_move"
    /\ last.res = TRUE
    /\ last.moved
    /\ Len(last.before) >= 1
    /\ \E u \in Range(last.before) : Hash(u) = Hash(last.arg)
    /\ vector_["a"] = Append(last.before, last.arg)
====
